---- MODULE Spec2Model ----
(***************************************************************************)
(* Model of the ALEJO Unreal plugin's bridge client, UALEJOSubsystem:      *)
(* the WebSocket member, the sockets the engine's WebSockets module keeps  *)
(* alive, the one-shot auto-connect timer, the four send operations, the   *)
(* four transport callbacks and the multicast delegates they broadcast on. *)
(***************************************************************************)
EXTENDS Naturals, Integers, Sequences, FiniteSets, TLC

(***************************************************************************)
(* Bounds of the model.                                                    *)
(***************************************************************************)
\* number of sockets CreateWebSocket can hand out in one run
MaxSockets == 2
\* number of send calls (ProcessText .. SendCustomEvent) in one run
MaxCalls == 2
\* largest font size a text block is scaled to in one run
MaxFontSize == 48
\* longest run of consecutive ApplyFontScaling calls with one settings object
MaxApplications == 3
\* last value of the game clock, in half seconds
MaxTime == 3
\* number of calls the widget's handlers forward to the subsystem in one run
MaxForwarded == 3

VARIABLES
    phase,      \* lifecycle of the subsystem object
    timer,      \* the auto-connect timer set by Initialize
    WebSocket,  \* TSharedPtr<IWebSocket> WebSocket; 0 is nullptr
    sock,       \* state of every socket the WebSockets module has created
    lastOp,     \* the operation or callback that ran last, and the state it saw
    out,        \* delegate broadcasts made by the last step, in order
    written,    \* frames handed to IWebSocket::Send by the last step
    calls,      \* number of send calls made so far
    rejected,   \* ids of the send calls that took the not-connected return
    wire,       \* ids of the send calls whose frame reached a socket, in order
    arg,        \* what the last step was given: a send call's arguments or
                \* the frame handed to OnMessage; empty for every other step
    AsObject,   \* what this build's FJsonValue::AsObject hands back for a
                \* value that is not an object: "nullptr" or "EMPTY_OBJECT"
    TestSettings,          \* a settings object whose properties callers set
    DeserializedSettings,  \* the settings object FromJsonString is called on
    profOp,                \* the last operation on the settings objects
    loads,                 \* number of FromJsonString calls made so far
    AccessibilitySettings, \* UALEJOUIHelper::AccessibilitySettings
    helperOp,              \* the last call made to the UALEJOUIHelper from outside, and its result
    FontSize,              \* TextBlock->Font.Size of the target widget's text block
    widget,                \* the members of a UALEJOAccessibleWidget
    CurrentTime,           \* UGameplayStatics::GetTimeSeconds, in half seconds
    widgetOp               \* the last handler of the widget that ran, and what it did

bridgeVars == <<phase, timer, WebSocket, sock, lastOp, out, written, calls, rejected,
                wire, arg>>
profileVars == <<TestSettings, DeserializedSettings, profOp, loads>>
helperVars == <<AccessibilitySettings, helperOp, FontSize>>
widgetVars == <<widget, CurrentTime, widgetOp>>
vars == <<bridgeVars, AsObject, profileVars, helperVars, widgetVars>>

nullptr == 0
SocketIds == 1..MaxSockets

DefaultServerURL == "ws://localhost:3030"
ServerURLs == {DefaultServerURL}

(***************************************************************************)
(* JSON values and documents.  A string handed to or produced by the JSON  *)
(* reader/writer is modelled by what the reader makes of it: a document    *)
(* that is an object, or text that is not one.                             *)
(***************************************************************************)
JString(s) == [t |-> "string", v |-> s]
JObject(o) == [t |-> "object", v |-> o]
JBool(b) == [t |-> "bool", v |-> b]
JNumber(n) == [t |-> "number", v |-> n]

EmptyObject == [k \in {} |-> JString("")]

\* FJsonSerializer::Serialize of an object into a string
Serialize(obj) == [kind |-> "object", fields |-> obj]
\* a string that is no JSON object (plain text, truncated JSON, a JSON array)
PlainText(s) == [kind |-> "text", text |-> s]
\* an FString literal
Str(s) == PlainText(s)

\* FJsonSerializer::Deserialize(Reader, TSharedPtr<FJsonObject>&): <<ok, object>>
Deserialize(str) ==
    IF str.kind = "object" THEN <<TRUE, str.fields>> ELSE <<FALSE, EmptyObject>>

HasField(obj, k) == k \in DOMAIN obj

\* FJsonObject::TryGetStringField: <<found, value>>
TryGetStringField(obj, k, default) ==
    IF HasField(obj, k) /\ obj[k].t = "string" THEN <<TRUE, obj[k].v>>
    ELSE <<FALSE, default>>

\* FJsonObject::GetObjectField as the caller uses it: <<valid, object>>.  For
\* a field that is missing or not an object the pointer handed back is the
\* library's: null, or a valid object with no fields.
GetObjectField(obj, k) ==
    IF HasField(obj, k) /\ obj[k].t = "object" THEN <<TRUE, obj[k].v>>
    ELSE <<AsObject = "EMPTY_OBJECT", EmptyObject>>

(***************************************************************************)
(* Delegate broadcasts.                                                    *)
(***************************************************************************)
Notify(ch, args) == [ch |-> ch, args |-> args]

NotConnectedMsg == Str("Not connected to ALEJO bridge")
NotConnectedOrInvalidMsg == Str("Not connected or invalid settings")
InvalidJsonMsg == Str("Invalid JSON message received")


(***************************************************************************)
(* Inputs of the public operations.                                        *)
(***************************************************************************)
EmptyMap == [k \in {} |-> Str("")]
Texts == {Str("hello"), Str("")}
Contexts ==
    {EmptyMap,
     [k \in {"source"} |-> Str("unit_test")],
     [k \in {"source", "lang"} |-> IF k = "source" THEN Str("unit_test") ELSE Str("en")]}
EventTypes == {Str("voice.listening.start")}
EventDatas ==
    {PlainText("plain"),
     PlainText("{\"message\":\"say \"hi\"\"}"),
     Serialize([k \in {"message"} |-> JString(Str("hi"))])}
TransportErrors == {Str("connection refused")}

SetField(obj, k, v) == [x \in (DOMAIN obj) \cup {k} |-> IF x = k THEN v ELSE obj[x]]

\* the constructor if it switched the screen reader on
DefaultSettings_ScreenReaderOn ==
    [bHighContrastMode |-> FALSE, FontScaleFactor |-> 100,
     bColorBlindMode |-> FALSE, ColorBlindnessType |-> "None",
     bScreenReaderEnabled |-> TRUE,
     bVisualAlternativesToAudio |-> FALSE, bSignLanguageEnabled |-> FALSE,
     SignLanguagePreference |-> "ASL", bCaptionsEnabled |-> TRUE,
     CaptionScaleFactor |-> 100,
     bHapticFeedbackEnabled |-> TRUE, InputHoldDuration |-> 30,
     bSimplifiedGestureControls |-> FALSE,
     bSimplifiedLanguage |-> FALSE, bReducedMotion |-> FALSE,
     bFocusAssistance |-> FALSE, ReadingSpeedFactor |-> 100]

\* UALEJOAccessibilitySettings::UALEJOAccessibilitySettings; floats in hundredths
DefaultSettings ==
    [bHighContrastMode |-> FALSE, FontScaleFactor |-> 100,
     bColorBlindMode |-> FALSE, ColorBlindnessType |-> "None",
     bScreenReaderEnabled |-> FALSE,
     bVisualAlternativesToAudio |-> FALSE, bSignLanguageEnabled |-> FALSE,
     SignLanguagePreference |-> "ASL", bCaptionsEnabled |-> TRUE,
     CaptionScaleFactor |-> 100,
     bHapticFeedbackEnabled |-> TRUE, InputHoldDuration |-> 30,
     bSimplifiedGestureControls |-> FALSE,
     bSimplifiedLanguage |-> FALSE, bReducedMotion |-> FALSE,
     bFocusAssistance |-> FALSE, ReadingSpeedFactor |-> 100]

\* NewObject<UALEJOAccessibilitySettings>(): the object's memory is zeroed,
\* then the constructor runs.  bKeyboardNavigationEnabled is the member that
\* ALEJOAccessibleWidget.cpp and the tests read and set; the constructor and
\* the JSON conversions never mention it.
NewObject ==
    [f \in DOMAIN DefaultSettings \cup {"bKeyboardNavigationEnabled"} |->
        IF f \in DOMAIN DefaultSettings THEN DefaultSettings[f] ELSE FALSE]

SettingsKeys ==
    {"highContrastMode", "fontScaleFactor", "colorBlindMode", "colorBlindnessType",
     "screenReaderEnabled", "visualAlternativesToAudio", "signLanguageEnabled",
     "signLanguagePreference", "captionsEnabled", "captionScaleFactor",
     "hapticFeedbackEnabled", "inputHoldDuration", "simplifiedGestureControls",
     "simplifiedLanguage", "reducedMotion", "focusAssistance", "readingSpeedFactor"}

\* UALEJOAccessibilitySettings::ToJsonString
ToJsonString(P) ==
    Serialize([k \in SettingsKeys |->
        CASE k = "highContrastMode" -> JBool(P.bHighContrastMode)
          [] k = "fontScaleFactor" -> JNumber(P.FontScaleFactor)
          [] k = "colorBlindMode" -> JBool(P.bColorBlindMode)
          [] k = "colorBlindnessType" -> JString(Str(P.ColorBlindnessType))
          [] k = "screenReaderEnabled" -> JBool(P.bScreenReaderEnabled)
          [] k = "visualAlternativesToAudio" -> JBool(P.bVisualAlternativesToAudio)
          [] k = "signLanguageEnabled" -> JBool(P.bSignLanguageEnabled)
          [] k = "signLanguagePreference" -> JString(Str(P.SignLanguagePreference))
          [] k = "captionsEnabled" -> JBool(P.bCaptionsEnabled)
          [] k = "captionScaleFactor" -> JNumber(P.CaptionScaleFactor)
          [] k = "hapticFeedbackEnabled" -> JBool(P.bHapticFeedbackEnabled)
          [] k = "inputHoldDuration" -> JNumber(P.InputHoldDuration)
          [] k = "simplifiedGestureControls" -> JBool(P.bSimplifiedGestureControls)
          [] k = "simplifiedLanguage" -> JBool(P.bSimplifiedLanguage)
          [] k = "reducedMotion" -> JBool(P.bReducedMotion)
          [] k = "focusAssistance" -> JBool(P.bFocusAssistance)
          [] k = "readingSpeedFactor" -> JNumber(P.ReadingSpeedFactor)])

\* const UALEJOAccessibilitySettings*: a null pointer or a settings object
NullSettings == [null |-> TRUE, obj |-> DefaultSettings]
SettingsPtr(P) == [null |-> FALSE, obj |-> P]
SettingsArgs == {NullSettings, SettingsPtr(DefaultSettings)}

(***************************************************************************)
(* Connection state.  The class keeps no state field: what the caller can  *)
(* observe is IsConnected(), decided by the socket the member points to.   *)
(***************************************************************************)
\* UALEJOSubsystem::IsConnected
IsConnected == WebSocket # nullptr /\ sock[WebSocket] = "open"

State ==
    IF IsConnected THEN "Connected"
    ELSE IF WebSocket # nullptr /\ sock[WebSocket] = "connecting" THEN "Connecting"
    ELSE "Disconnected"

\* sockets that are open or still opening
LiveSockets == {s \in SocketIds : sock[s] \in {"connecting", "open"}}
FreeSockets == {s \in SocketIds : sock[s] = "free"}

\* what a step records of itself: its name, the connection state and the
\* member it found, and the socket it concerns
Op(name, s) ==
    [op |-> name, pre |-> State, ws |-> WebSocket, s |-> s,
     cur |-> (s # nullptr /\ s = WebSocket)]

Quiet == out' = <<>> /\ written' = <<>>
\* the JSON library of a build does not change while it runs
SameBuild == UNCHANGED AsObject
\* a step of the subsystem touches no settings object, UI helper or widget
OnlyBridge == SameBuild /\ UNCHANGED <<profileVars, helperVars, widgetVars>>
NoSend == UNCHANGED <<calls, rejected, wire>> /\ OnlyBridge
NoArgs == arg' = <<>>

\* TextBlock->Font.Size before any scaling, in points
BaseFontSize == 12

Init ==
    /\ phase = "constructed"
    /\ timer = "unset"
    /\ WebSocket = nullptr
    /\ sock = [s \in SocketIds |-> "free"]
    /\ lastOp = [op |-> "none", pre |-> "Disconnected", ws |-> nullptr, s |-> nullptr,
                 cur |-> FALSE]
    /\ out = <<>>
    /\ written = <<>>
    /\ calls = 0
    /\ rejected = {}
    /\ wire = <<>>
    /\ arg = <<>>
    /\ AsObject \in {"nullptr", "EMPTY_OBJECT"}
    /\ TestSettings = NewObject
    /\ DeserializedSettings = NewObject
    /\ profOp = [op |-> "NewObject", payload |-> PlainText(""), ret |-> TRUE,
                 before |-> NewObject]
    /\ loads = 0
    /\ AccessibilitySettings = NullSettings
    /\ helperOp = [op |-> "none"]
    /\ FontSize = BaseFontSize
    /\ widget = [bIsWaitingForVoiceInput |-> FALSE, LastAnnouncementTime |-> 0,
                 AccessibilitySettings |-> NullSettings]
    /\ CurrentTime = 0
    /\ widgetOp = [op |-> "none"]

(***************************************************************************)
(* Connection lifecycle.                                                   *)
(***************************************************************************)
\* ConnectToWebSocket if the socket were open as soon as Connect() returns
ConnectToWebSocket_OpensAtOnce(ServerURL) ==
    /\ FreeSockets # {}
    /\ LET s == CHOOSE x \in FreeSockets : \A y \in FreeSockets : x <= y
       IN /\ WebSocket' = s
          /\ sock' = [sock EXCEPT ![s] = "open"]
    /\ Quiet

\* UALEJOSubsystem::ConnectToWebSocket: CreateWebSocket, register the four
\* lambdas, WebSocket->Connect().  The member now points to the new socket;
\* a socket it pointed to before stays with the WebSockets module.
ConnectToWebSocket(ServerURL) ==
    /\ FreeSockets # {}
    /\ LET s == CHOOSE x \in FreeSockets : \A y \in FreeSockets : x <= y
       IN /\ WebSocket' = s
          /\ sock' = [sock EXCEPT ![s] = "connecting"]
    /\ Quiet

\* UALEJOSubsystem::Connect
Connect(ServerURL) ==
    IF IsConnected
    THEN UNCHANGED <<WebSocket, sock>> /\ Quiet
    ELSE ConnectToWebSocket(ServerURL)

\* Disconnect with its guard inverted: a connected socket is left alone
Disconnect_InvertedGuard ==
    IF WebSocket # nullptr /\ sock[WebSocket] # "open"
    THEN /\ sock' = [sock EXCEPT ![WebSocket] = "closing"]
         /\ WebSocket' = nullptr
         /\ Quiet
    ELSE UNCHANGED <<WebSocket, sock>> /\ Quiet

\* UALEJOSubsystem::Disconnect
Disconnect ==
    IF WebSocket # nullptr /\ sock[WebSocket] = "open"
    THEN /\ sock' = [sock EXCEPT ![WebSocket] = "closing"]
         /\ WebSocket' = nullptr
         /\ Quiet
    ELSE UNCHANGED <<WebSocket, sock>> /\ Quiet

\* UALEJOSubsystem::Initialize: one non-looping timer that calls Connect()
Initialize ==
    /\ phase = "constructed"
    /\ phase' = "active"
    /\ timer' = "pending"
    /\ lastOp' = Op("Initialize", nullptr)
    /\ UNCHANGED <<WebSocket, sock>>
    /\ Quiet
    /\ NoSend /\ NoArgs

\* UALEJOSubsystem::Deinitialize
Deinitialize ==
    /\ phase = "active"
    /\ phase' = "deinit"
    /\ Disconnect
    /\ lastOp' = Op("Deinitialize", nullptr)
    /\ UNCHANGED timer
    /\ NoSend /\ NoArgs

\* the timer set by Initialize elapses: [this]() { Connect(); }
TimerFires ==
    /\ timer = "pending"
    /\ timer' = "fired"
    /\ Connect(DefaultServerURL)
    /\ lastOp' = Op("TimerConnect", nullptr)
    /\ UNCHANGED phase
    /\ NoSend /\ NoArgs

\* a caller invokes Connect(ServerURL)
CallConnect ==
    /\ phase = "active"
    /\ \E ServerURL \in ServerURLs : Connect(ServerURL)
    /\ lastOp' = Op("Connect", nullptr)
    /\ UNCHANGED <<phase, timer>>
    /\ NoSend /\ NoArgs

\* a caller invokes Disconnect()
CallDisconnect ==
    /\ phase = "active"
    /\ Disconnect
    /\ lastOp' = Op("Disconnect", nullptr)
    /\ UNCHANGED <<phase, timer>>
    /\ NoSend /\ NoArgs

(***************************************************************************)
(* Transport callbacks.  Each socket carries the lambdas registered when   *)
(* it was created; they capture the subsystem, not the socket.             *)
(***************************************************************************)
\* OnConnected lambda that also writes out the sends rejected so far
OnConnected_FlushesPending(s) ==
    /\ sock[s] = "connecting"
    /\ sock' = [sock EXCEPT ![s] = "open"]
    /\ out' = <<Notify("OnConnected", <<>>)>>
    /\ written' = [i \in 1..Cardinality(rejected) |-> [sock |-> s, frame |-> Str("pending")]]
    /\ UNCHANGED WebSocket

\* WebSocket->OnConnected() lambda: the socket finished its handshake
OnConnected(s) ==
    /\ sock[s] = "connecting"
    /\ sock' = [sock EXCEPT ![s] = "open"]
    /\ out' = <<Notify("OnConnected", <<>>)>>
    /\ written' = <<>>
    /\ UNCHANGED WebSocket

\* OnConnectionError lambda that retries the connection on a new socket
OnConnectionError_Reconnects(s, Error) ==
    /\ sock[s] \in {"connecting", "open"}
    /\ out' = <<Notify("OnError", <<Error>>)>>
    /\ written' = <<>>
    /\ IF FreeSockets # {}
       THEN LET n == CHOOSE x \in FreeSockets : \A y \in FreeSockets : x <= y
            IN /\ sock' = [sock EXCEPT ![s] = "closed", ![n] = "connecting"]
               /\ WebSocket' = n
       ELSE /\ sock' = [sock EXCEPT ![s] = "closed"]
            /\ UNCHANGED WebSocket

\* WebSocket->OnConnectionError() lambda: the socket failed
OnConnectionError(s, Error) ==
    /\ sock[s] \in {"connecting", "open"}
    /\ sock' = [sock EXCEPT ![s] = "closed"]
    /\ out' = <<Notify("OnError", <<Error>>)>>
    /\ written' = <<>>
    /\ UNCHANGED WebSocket

\* WebSocket->OnClosed() lambda: the peer closed an open socket, or the
\* close requested by Disconnect completed
OnClosed(s) ==
    /\ sock[s] \in {"open", "closing"}
    /\ sock' = [sock EXCEPT ![s] = "closed"]
    /\ out' = <<Notify("OnDisconnected", <<>>)>>
    /\ written' = <<>>
    /\ UNCHANGED WebSocket

TransportOpened ==
    \E s \in SocketIds :
        /\ lastOp' = Op("OnConnected", s)
        /\ OnConnected(s)
        /\ UNCHANGED <<phase, timer>>
        /\ NoSend /\ NoArgs

TransportError ==
    \E s \in SocketIds, Error \in TransportErrors :
        /\ lastOp' = Op("OnConnectionError", s)
        /\ OnConnectionError(s, Error)
        /\ UNCHANGED <<phase, timer>>
        /\ NoSend /\ NoArgs

TransportClosed ==
    \E s \in SocketIds :
        /\ lastOp' = Op("OnClosed", s)
        /\ OnClosed(s)
        /\ UNCHANGED <<phase, timer>>
        /\ NoSend /\ NoArgs

(***************************************************************************)
(* Send operations.  Each call either takes the early return, which        *)
(* broadcasts on OnError, or hands one frame to WebSocket->Send.           *)
(***************************************************************************)
\* the early return of a send operation: OnError.Broadcast(Message); return;
Reject(Message) ==
    /\ out' = <<Notify("OnError", <<Message>>)>>
    /\ written' = <<>>
    /\ rejected' = rejected \cup {calls + 1}
    /\ UNCHANGED <<wire, WebSocket, sock>>

\* WebSocket->Send(MessageString)
Send(MessageString) ==
    /\ out' = <<>>
    /\ written' = <<[sock |-> WebSocket, frame |-> MessageString]>>
    /\ wire' = Append(wire, calls + 1)
    /\ UNCHANGED <<rejected, WebSocket, sock>>

\* the message object if it always carried a `context` object
MessageWithContext_AlwaysContext(field, value, Context) ==
    LET MessageObj == SetField(EmptyObject, field, JString(value))
        ContextObj == [k \in DOMAIN Context |-> JString(Context[k])]
    IN SetField(MessageObj, "context", JObject(ContextObj))

\* the JSON object both ProcessText and ProcessVoiceCommand build
MessageWithContext(field, value, Context) ==
    LET MessageObj == SetField(EmptyObject, field, JString(value))
        ContextObj == [k \in DOMAIN Context |-> JString(Context[k])]
    IN IF Cardinality(DOMAIN Context) > 0
       THEN SetField(MessageObj, "context", JObject(ContextObj))
       ELSE MessageObj

\* ProcessText without its IsConnected() guard
ProcessText_NoGuard(Text, Context) ==
    Send(Serialize(MessageWithContext("text", Text, Context)))

\* UALEJOSubsystem::ProcessText
ProcessText(Text, Context) ==
    IF ~IsConnected
    THEN Reject(NotConnectedMsg)
    ELSE Send(Serialize(MessageWithContext("text", Text, Context)))

\* ProcessVoiceCommand if it put the command under the key of ProcessText
ProcessVoiceCommand_AsText(Command, Context) ==
    IF ~IsConnected THEN Reject(NotConnectedMsg)
    ELSE Send(Serialize(MessageWithContext("text", Command, Context)))

\* UALEJOSubsystem::ProcessVoiceCommand
ProcessVoiceCommand(Command, Context) ==
    IF ~IsConnected
    THEN Reject(NotConnectedMsg)
    ELSE Send(Serialize(MessageWithContext("command", Command, Context)))

\* UALEJOSubsystem::UpdateAccessibilitySettings
UpdateAccessibilitySettings(Settings) ==
    IF ~IsConnected \/ Settings.null
    THEN Reject(NotConnectedOrInvalidMsg)
    ELSE Send(ToJsonString(Settings.obj))

\* SendCustomEvent if the data string were never parsed
SendCustomEvent_AlwaysString(EventType, EventData) ==
    IF ~IsConnected THEN Reject(NotConnectedMsg)
    ELSE LET MessageObj == SetField(EmptyObject, "type", JString(EventType))
         IN Send(Serialize(SetField(MessageObj, "data", JString(EventData))))

\* UALEJOSubsystem::SendCustomEvent
SendCustomEvent(EventType, EventData) ==
    IF ~IsConnected
    THEN Reject(NotConnectedMsg)
    ELSE LET MessageObj == SetField(EmptyObject, "type", JString(EventType))
             DataObj == Deserialize(EventData)
         IN IF DataObj[1]
            THEN Send(Serialize(SetField(MessageObj, "data", JObject(DataObj[2]))))
            ELSE Send(Serialize(SetField(MessageObj, "data", JString(EventData))))

SendCall(name) ==
    /\ phase = "active"
    /\ calls < MaxCalls
    /\ calls' = calls + 1
    /\ lastOp' = Op(name, nullptr)
    /\ UNCHANGED <<phase, timer>>
    /\ OnlyBridge

CallProcessText ==
    /\ SendCall("ProcessText")
    /\ \E Text \in Texts, Context \in Contexts :
           arg' = <<Text, Context>> /\ ProcessText(Text, Context)

CallProcessVoiceCommand ==
    /\ SendCall("ProcessVoiceCommand")
    /\ \E Command \in Texts, Context \in Contexts :
           arg' = <<Command, Context>> /\ ProcessVoiceCommand(Command, Context)

CallUpdateAccessibilitySettings ==
    /\ SendCall("UpdateAccessibilitySettings")
    /\ \E Settings \in SettingsArgs :
           arg' = <<Settings>> /\ UpdateAccessibilitySettings(Settings)

CallSendCustomEvent ==
    /\ SendCall("SendCustomEvent")
    /\ \E EventType \in EventTypes, EventData \in EventDatas :
           arg' = <<EventType, EventData>> /\ SendCustomEvent(EventType, EventData)

(***************************************************************************)
(* Inbound frames.                                                         *)
(***************************************************************************)
\* ParseJSON if it handed back an empty object for text that is not JSON
ParseJSON_NeverFails(JSONString) == <<TRUE, Deserialize(JSONString)[2]>>

\* UALEJOSubsystem::ParseJSON: <<valid, object>>
ParseJSON(JSONString) == Deserialize(JSONString)

\* the `type` branch if every event with a `data.mode` were a mode change
HandleEvent_AnyTypeChangesMode(JsonObject, EventType) ==
    LET DataObj == GetObjectField(JsonObject, "data")
        EventData == IF DataObj[1] THEN Serialize(DataObj[2])
                     ELSE TryGetStringField(JsonObject, "data", Str(""))[2]
        NewMode == TryGetStringField(DataObj[2], "mode", Str(""))
    IN <<Notify("OnALEJOEvent", <<EventType, EventData>>)>>
       \o (IF DataObj[1] /\ NewMode[1]
           THEN <<Notify("OnResourceModeChanged", <<NewMode[2]>>)>>
           ELSE <<>>)

\* the `type` branch of HandleWebSocketMessage: OnALEJOEvent with the data
\* re-serialised or taken as a string, then the resource-mode special case
HandleEvent(JsonObject, EventType) ==
    LET DataObj == GetObjectField(JsonObject, "data")
        EventData == IF DataObj[1] THEN Serialize(DataObj[2])
                     ELSE TryGetStringField(JsonObject, "data", Str(""))[2]
        NewMode == TryGetStringField(DataObj[2], "mode", Str(""))
    IN <<Notify("OnALEJOEvent", <<EventType, EventData>>)>>
       \o (IF /\ EventType = Str("resource.mode.changed")
              /\ DataObj[1]
              /\ NewMode[1]
           THEN <<Notify("OnResourceModeChanged", <<NewMode[2]>>)>>
           ELSE <<>>)

\* HandleWebSocketMessage if the `response` branch fell through to `error`
HandleWebSocketMessage_TextThenError(MessageString) ==
    LET Parsed == ParseJSON(MessageString)
        JsonObject == Parsed[2]
        EventType == TryGetStringField(JsonObject, "type", Str(""))
        Response == TryGetStringField(JsonObject, "response", Str(""))[2]
        ErrorMessage == TryGetStringField(JsonObject, "error", Str(""))[2]
    IN IF ~Parsed[1] THEN <<Notify("OnError", <<InvalidJsonMsg>>)>>
       ELSE IF EventType[1] THEN HandleEvent(JsonObject, EventType[2])
       ELSE IF HasField(JsonObject, "response")
       THEN <<Notify("OnTextProcessed", <<Response>>)>>
            \o (IF HasField(JsonObject, "error")
                THEN <<Notify("OnError", <<ErrorMessage>>)>>
                ELSE <<>>)
       ELSE IF HasField(JsonObject, "command")
       THEN <<Notify("OnVoiceProcessed", <<Response>>)>>
       ELSE IF HasField(JsonObject, "error")
       THEN <<Notify("OnError", <<ErrorMessage>>)>>
       ELSE <<>>

\* HandleWebSocketMessage if a frame with no known key were reported
HandleWebSocketMessage_UnknownIsError(MessageString) ==
    LET Parsed == ParseJSON(MessageString)
        JsonObject == Parsed[2]
        EventType == TryGetStringField(JsonObject, "type", Str(""))
        Response == TryGetStringField(JsonObject, "response", Str(""))[2]
        ErrorMessage == TryGetStringField(JsonObject, "error", Str(""))[2]
    IN IF ~Parsed[1] THEN <<Notify("OnError", <<InvalidJsonMsg>>)>>
       ELSE IF EventType[1] THEN HandleEvent(JsonObject, EventType[2])
       ELSE IF HasField(JsonObject, "response")
       THEN <<Notify("OnTextProcessed", <<Response>>)>>
       ELSE IF HasField(JsonObject, "command")
       THEN <<Notify("OnVoiceProcessed", <<Response>>)>>
       ELSE IF HasField(JsonObject, "error")
       THEN <<Notify("OnError", <<ErrorMessage>>)>>
       ELSE <<Notify("OnError", <<InvalidJsonMsg>>)>>

\* HandleWebSocketMessage if the `error` key were tested before `type`
HandleWebSocketMessage_ErrorFirst(MessageString) ==
    LET Parsed == ParseJSON(MessageString)
        JsonObject == Parsed[2]
        EventType == TryGetStringField(JsonObject, "type", Str(""))
        Response == TryGetStringField(JsonObject, "response", Str(""))[2]
        ErrorMessage == TryGetStringField(JsonObject, "error", Str(""))[2]
    IN IF ~Parsed[1] THEN <<Notify("OnError", <<InvalidJsonMsg>>)>>
       ELSE IF HasField(JsonObject, "error")
       THEN <<Notify("OnError", <<ErrorMessage>>)>>
       ELSE IF EventType[1] THEN HandleEvent(JsonObject, EventType[2])
       ELSE IF HasField(JsonObject, "response")
       THEN <<Notify("OnTextProcessed", <<Response>>)>>
       ELSE IF HasField(JsonObject, "command")
       THEN <<Notify("OnVoiceProcessed", <<Response>>)>>
       ELSE <<>>

\* UALEJOSubsystem::HandleWebSocketMessage: the broadcasts it makes, in order
HandleWebSocketMessage(MessageString) ==
    LET Parsed == ParseJSON(MessageString)
        JsonObject == Parsed[2]
        EventType == TryGetStringField(JsonObject, "type", Str(""))
        Response == TryGetStringField(JsonObject, "response", Str(""))[2]
        ErrorMessage == TryGetStringField(JsonObject, "error", Str(""))[2]
    IN IF ~Parsed[1] THEN <<Notify("OnError", <<InvalidJsonMsg>>)>>
       ELSE IF EventType[1] THEN HandleEvent(JsonObject, EventType[2])
       ELSE IF HasField(JsonObject, "response")
       THEN <<Notify("OnTextProcessed", <<Response>>)>>
       ELSE IF HasField(JsonObject, "command")
       THEN <<Notify("OnVoiceProcessed", <<Response>>)>>
       ELSE IF HasField(JsonObject, "error")
       THEN <<Notify("OnError", <<ErrorMessage>>)>>
       ELSE <<>>

\* OnMessage lambda that closes the socket when the bridge reports an error
OnMessage_ErrorFrameCloses(s, MessageString) ==
    /\ sock[s] = "open"
    /\ out' = HandleWebSocketMessage(MessageString)
    /\ written' = <<>>
    /\ sock' = IF HasField(ParseJSON(MessageString)[2], "error")
               THEN [sock EXCEPT ![s] = "closed"] ELSE sock
    /\ UNCHANGED WebSocket

\* OnMessage lambda that drops the socket when a frame does not parse
OnMessage_DropsConnection(s, MessageString) ==
    /\ sock[s] = "open"
    /\ out' = HandleWebSocketMessage(MessageString)
    /\ written' = <<>>
    /\ sock' = IF ParseJSON(MessageString)[1] THEN sock ELSE [sock EXCEPT ![s] = "closed"]
    /\ UNCHANGED WebSocket

\* WebSocket->OnMessage() lambda: a frame arrived on an open socket
OnMessage(s, MessageString) ==
    /\ sock[s] = "open"
    /\ out' = HandleWebSocketMessage(MessageString)
    /\ written' = <<>>
    /\ UNCHANGED <<WebSocket, sock>>

\* an absent field is <<>>, a present one <<value>>
MakeObject(opts) == [k \in {x \in DOMAIN opts : opts[x] # <<>>} |-> opts[k][1]]

TypeOpts == {<<>>, <<JString(Str("resource.mode.changed"))>>, <<JString(Str("custom"))>>}
DataOpts ==
    {<<>>, <<JString(Str("payload"))>>, <<JObject(EmptyObject)>>,
     <<JObject([k \in {"mode"} |-> JString(Str("low"))])>>}
ResponseOpts == {<<>>, <<JString(Str("Hello!"))>>}
CommandOpts == {<<>>, <<JString(Str("go"))>>}
ErrorOpts == {<<>>, <<JString(Str("boom"))>>}

\* objects with none of the keys HandleWebSocketMessage looks for first
OtherFrames ==
    {Serialize([k \in {"status"} |-> JString(Str("ok"))]),
     Serialize([k \in {"data"} |-> JString(Str("payload"))])}

\* frames with a type carry any data and either no other key or all of them;
\* frames without a type carry every combination of the other keys
InFrames ==
    {PlainText("not json")} \cup OtherFrames \cup
    {Serialize(MakeObject([type |-> ty, data |-> da, response |-> ot,
                           command |-> ot, error |-> ot])) :
        ty \in TypeOpts \ {<<>>}, da \in DataOpts, ot \in ResponseOpts} \cup
    {Serialize(MakeObject([type |-> <<>>, data |-> <<>>, response |-> re,
                           command |-> co, error |-> er])) :
        re \in ResponseOpts, co \in CommandOpts, er \in ErrorOpts}

TransportMessage ==
    \E s \in SocketIds, MessageString \in InFrames :
        /\ lastOp' = Op("OnMessage", s)
        /\ OnMessage(s, MessageString)
        /\ arg' = <<MessageString>>
        /\ UNCHANGED <<phase, timer>>
        /\ NoSend

Next ==
    \/ Initialize
    \/ Deinitialize
    \/ TimerFires
    \/ CallConnect
    \/ CallDisconnect
    \/ CallProcessText
    \/ CallProcessVoiceCommand
    \/ CallUpdateAccessibilitySettings
    \/ CallSendCustomEvent
    \/ TransportOpened
    \/ TransportError
    \/ TransportClosed
    \/ TransportMessage

Spec == Init /\ [][Next]_vars

(***************************************************************************)
(* Settings objects on their own: properties are set on TestSettings, and  *)
(* DeserializedSettings is created and loaded from JSON strings, among     *)
(* them the string ToJsonString makes of TestSettings.                     *)
(***************************************************************************)
\* number of FromJsonString calls in one run
MaxLoads == 2

\* FJsonObject::TryGetBoolField / TryGetNumberField: the out parameter is
\* written only when the field is there with that type
TryGetBoolField(obj, k, cur) ==
    IF HasField(obj, k) /\ obj[k].t = "bool" THEN obj[k].v ELSE cur
TryGetNumberField(obj, k, cur) ==
    IF HasField(obj, k) /\ obj[k].t = "number" THEN obj[k].v ELSE cur

\* what FromJsonString does with a parsed object: one TryGet per key
ReadFields(Q, J) ==
    [Q EXCEPT
        !.bHighContrastMode = TryGetBoolField(J, "highContrastMode", @),
        !.FontScaleFactor = TryGetNumberField(J, "fontScaleFactor", @),
        !.bColorBlindMode = TryGetBoolField(J, "colorBlindMode", @),
        !.ColorBlindnessType = TryGetStringField(J, "colorBlindnessType", Str(@))[2].text,
        !.bScreenReaderEnabled = TryGetBoolField(J, "screenReaderEnabled", @),
        !.bVisualAlternativesToAudio = TryGetBoolField(J, "visualAlternativesToAudio", @),
        !.bSignLanguageEnabled = TryGetBoolField(J, "signLanguageEnabled", @),
        !.SignLanguagePreference =
            TryGetStringField(J, "signLanguagePreference", Str(@))[2].text,
        !.bCaptionsEnabled = TryGetBoolField(J, "captionsEnabled", @),
        !.CaptionScaleFactor = TryGetNumberField(J, "captionScaleFactor", @),
        !.bHapticFeedbackEnabled = TryGetBoolField(J, "hapticFeedbackEnabled", @),
        !.InputHoldDuration = TryGetNumberField(J, "inputHoldDuration", @),
        !.bSimplifiedGestureControls = TryGetBoolField(J, "simplifiedGestureControls", @),
        !.bSimplifiedLanguage = TryGetBoolField(J, "simplifiedLanguage", @),
        !.bReducedMotion = TryGetBoolField(J, "reducedMotion", @),
        !.bFocusAssistance = TryGetBoolField(J, "focusAssistance", @),
        !.ReadingSpeedFactor = TryGetNumberField(J, "readingSpeedFactor", @)]

\* FromJsonString if it started from a fresh object before reading the keys
FromJsonString_ResetsMissing(Q, JsonString) ==
    LET Parsed == Deserialize(JsonString)
    IN IF ~Parsed[1] THEN <<FALSE, Q>> ELSE <<TRUE, ReadFields(NewObject, Parsed[2])>>

\* FromJsonString if a string that does not parse cleared the object
FromJsonString_ClearsOnFailure(Q, JsonString) ==
    LET Parsed == Deserialize(JsonString)
    IN IF ~Parsed[1] THEN <<FALSE, NewObject>> ELSE <<TRUE, ReadFields(Q, Parsed[2])>>

\* UALEJOAccessibilitySettings::FromJsonString on the object Q:
\* <<return value, the object afterwards>>
FromJsonString(Q, JsonString) ==
    LET Parsed == Deserialize(JsonString)
    IN IF ~Parsed[1] THEN <<FALSE, Q>> ELSE <<TRUE, ReadFields(Q, Parsed[2])>>

\* properties callers set on a settings object, and the values they give
PropertyValues ==
    [bKeyboardNavigationEnabled |-> {TRUE, FALSE},
     FontScaleFactor |-> {100, 150},
     ColorBlindnessType |-> {"None", "Deuteranopia"}]

\* JSON strings handed to FromJsonString besides a serialised settings object
Payloads ==
    {PlainText("not json"),
     Serialize(EmptyObject),
     Serialize([k \in {"invalid"} |-> JBool(TRUE)]),
     Serialize([k \in {"fontScaleFactor"} |-> JNumber(500)]),
     Serialize([k \in {"inputHoldDuration"} |-> JNumber(5)]),
     Serialize([k \in {"readingSpeedFactor", "captionScaleFactor"} |->
                   IF k = "readingSpeedFactor" THEN JNumber(300) ELSE JNumber(10)]),
     Serialize([k \in {"highContrastMode", "captionsEnabled", "signLanguagePreference"} |->
                   CASE k = "highContrastMode" -> JBool(TRUE)
                     [] k = "captionsEnabled" -> JBool(FALSE)
                     [] k = "signLanguagePreference" -> JString(Str("BSL"))])}

ProfOp(name, JsonString, ret) ==
    [op |-> name, payload |-> JsonString, ret |-> ret, before |-> DeserializedSettings]

\* a step on the settings objects touches neither the subsystem nor a helper
OnlyProfiles == UNCHANGED <<bridgeVars, AsObject, helperVars, widgetVars>>

\* TestSettings->Property = Value
SetProperty ==
    /\ \E f \in DOMAIN PropertyValues : \E v \in PropertyValues[f] :
           /\ TestSettings[f] # v
           /\ TestSettings' = [TestSettings EXCEPT ![f] = v]
    /\ profOp' = ProfOp("SetProperty", PlainText(""), TRUE)
    /\ UNCHANGED <<DeserializedSettings, loads>>
    /\ OnlyProfiles

\* DeserializedSettings = NewObject<UALEJOAccessibilitySettings>()
CreateSettings ==
    /\ DeserializedSettings' = NewObject
    /\ profOp' = ProfOp("NewObject", PlainText(""), TRUE)
    /\ UNCHANGED <<TestSettings, loads>>
    /\ OnlyProfiles

\* DeserializedSettings->FromJsonString(JsonString)
CallFromJsonString ==
    /\ loads < MaxLoads
    /\ loads' = loads + 1
    /\ \E JsonString \in Payloads \cup {ToJsonString(TestSettings)} :
           LET r == FromJsonString(DeserializedSettings, JsonString)
           IN /\ DeserializedSettings' = r[2]
              /\ profOp' = ProfOp("FromJsonString", JsonString, r[1])
    /\ UNCHANGED TestSettings
    /\ OnlyProfiles

ProfileInit == Init /\ AsObject = "nullptr"

ProfileNext ==
    \/ SetProperty
    \/ CreateSettings
    \/ CallFromJsonString

ProfileSpec == ProfileInit /\ [][ProfileNext]_vars

(***************************************************************************)
(* UALEJOUIHelper on its own: the settings pointer it holds, the colour    *)
(* pair it picks and the contrast ratio it computes.  A float is modelled  *)
(* as a fixed-point number of ten-thousandths; every product and quotient  *)
(* is rounded down to that resolution.                                     *)
(***************************************************************************)
\* 1.0f in ten-thousandths
One == 10000

\* FLinearColor(R, G, B, 1.0f)
FLinearColor(r, g, b) == [R |-> r, G |-> g, B |-> b]

Mul(a, b) == (a * b) \div One
Pow5(y) == Mul(Mul(Mul(Mul(y, y), y), y), y)

\* the largest y in lo..hi whose fifth power is at most v
RECURSIVE Root5(_, _, _)
Root5(lo, hi, v) ==
    IF lo >= hi THEN lo
    ELSE LET mid == (lo + hi + 1) \div 2
         IN IF Pow5(mid) <= v THEN Root5(mid, hi, v) ELSE Root5(lo, mid - 1, v)

\* FMath::Pow(u, 2.4f) for u in [0, 1]: u^2 times the fifth root of u^2
Pow24(u) == LET sq == Mul(u, u) IN Mul(sq, Root5(0, One, sq))

\* one channel of CalculateLuminance
Linearize(c) ==
    IF c * 10 <= 3928 THEN (c * 100) \div 1292
    ELSE Pow24(((c + 550) * One) \div 10550)

\* the CalculateLuminance lambda of GetContrastRatio
CalculateLuminance(Color) ==
    (2126 * Linearize(Color.R) + 7152 * Linearize(Color.G) + 722 * Linearize(Color.B))
        \div One

\* GetContrastRatio if it divided the first luminance by the second
GetContrastRatio_FirstOverSecond(Color1, Color2) ==
    LET L1 == CalculateLuminance(Color1)
        L2 == CalculateLuminance(Color2)
    IN ((L1 + 500) * One) \div (L2 + 500)

\* GetContrastRatio if the flare term were 0.1 instead of 0.05
GetContrastRatio_FlareTenth(Color1, Color2) ==
    LET L1 == CalculateLuminance(Color1)
        L2 == CalculateLuminance(Color2)
        LighterL == IF L1 >= L2 THEN L1 ELSE L2
        DarkerL == IF L1 >= L2 THEN L2 ELSE L1
    IN ((LighterL + 1000) * One) \div (DarkerL + 1000)

\* UALEJOUIHelper::GetContrastRatio
GetContrastRatio(Color1, Color2) ==
    LET L1 == CalculateLuminance(Color1)
        L2 == CalculateLuminance(Color2)
        LighterL == IF L1 >= L2 THEN L1 ELSE L2
        DarkerL == IF L1 >= L2 THEN L2 ELSE L1
    IN ((LighterL + 500) * One) \div (DarkerL + 500)

\* GetAccessibleColorPair if colour-blind mode were tested before high contrast
GetAccessibleColorPair_ColorBlindFirst(Settings, bIsButtonOrInteractive) ==
    IF Settings.null
    THEN <<FLinearColor(1000, 1000, 1000), FLinearColor(9000, 9000, 9000)>>
    ELSE IF Settings.obj.bColorBlindMode
    THEN IF bIsButtonOrInteractive
         THEN <<FLinearColor(0, 4000, 7000), FLinearColor(10000, 10000, 10000)>>
         ELSE <<FLinearColor(2000, 2000, 2000), FLinearColor(9500, 9500, 9500)>>
    ELSE IF Settings.obj.bHighContrastMode
    THEN IF bIsButtonOrInteractive
         THEN <<FLinearColor(0, 0, 8000), FLinearColor(10000, 10000, 10000)>>
         ELSE <<FLinearColor(0, 0, 0), FLinearColor(10000, 10000, 0)>>
    ELSE IF bIsButtonOrInteractive
         THEN <<FLinearColor(2000, 2000, 8000), FLinearColor(10000, 10000, 10000)>>
         ELSE <<FLinearColor(1000, 1000, 1000), FLinearColor(9000, 9000, 9000)>>

\* GetAccessibleColorPair if high-contrast text were mid gray on black
GetAccessibleColorPair_DimHighContrast(Settings, bIsButtonOrInteractive) ==
    IF Settings.null
    THEN <<FLinearColor(1000, 1000, 1000), FLinearColor(9000, 9000, 9000)>>
    ELSE IF Settings.obj.bHighContrastMode
    THEN IF bIsButtonOrInteractive
         THEN <<FLinearColor(0, 0, 8000), FLinearColor(10000, 10000, 10000)>>
         ELSE <<FLinearColor(0, 0, 0), FLinearColor(4000, 4000, 4000)>>
    ELSE IF Settings.obj.bColorBlindMode
    THEN IF bIsButtonOrInteractive
         THEN <<FLinearColor(0, 4000, 7000), FLinearColor(10000, 10000, 10000)>>
         ELSE <<FLinearColor(2000, 2000, 2000), FLinearColor(9500, 9500, 9500)>>
    ELSE IF bIsButtonOrInteractive
         THEN <<FLinearColor(2000, 2000, 8000), FLinearColor(10000, 10000, 10000)>>
         ELSE <<FLinearColor(1000, 1000, 1000), FLinearColor(9000, 9000, 9000)>>

\* UALEJOUIHelper::GetAccessibleColorPair: <<OutBackgroundColor, OutForegroundColor>>
GetAccessibleColorPair(Settings, bIsButtonOrInteractive) ==
    IF Settings.null
    THEN <<FLinearColor(1000, 1000, 1000), FLinearColor(9000, 9000, 9000)>>
    ELSE IF Settings.obj.bHighContrastMode
    THEN IF bIsButtonOrInteractive
         THEN <<FLinearColor(0, 0, 8000), FLinearColor(10000, 10000, 10000)>>
         ELSE <<FLinearColor(0, 0, 0), FLinearColor(10000, 10000, 0)>>
    ELSE IF Settings.obj.bColorBlindMode
    THEN IF bIsButtonOrInteractive
         THEN <<FLinearColor(0, 4000, 7000), FLinearColor(10000, 10000, 10000)>>
         ELSE <<FLinearColor(2000, 2000, 2000), FLinearColor(9500, 9500, 9500)>>
    ELSE IF bIsButtonOrInteractive
         THEN <<FLinearColor(2000, 2000, 8000), FLinearColor(10000, 10000, 10000)>>
         ELSE <<FLinearColor(1000, 1000, 1000), FLinearColor(9000, 9000, 9000)>>

\* settings objects handed to the helper
HelperProfiles ==
    {[NewObject EXCEPT !.bHighContrastMode = hc, !.bColorBlindMode = cb,
                       !.ColorBlindnessType = ty, !.FontScaleFactor = fs] :
        hc \in BOOLEAN, cb \in BOOLEAN, ty \in {"None", "Deuteranopia"},
        fs \in {100, 150, 350}}
InSettingsArgs == {NullSettings} \cup {SettingsPtr(P) : P \in HelperProfiles}

\* a step of the helper touches neither the subsystem nor the test objects
OnlyHelper == UNCHANGED <<bridgeVars, AsObject, profileVars, widgetVars>>

\* UALEJOUIHelper::Initialize
HelperInitialize ==
    \E InSettings \in InSettingsArgs :
        /\ AccessibilitySettings' =
               IF ~InSettings.null THEN InSettings ELSE SettingsPtr(NewObject)
        /\ helperOp' = [op |-> "Initialize", InSettings |-> InSettings]
        /\ UNCHANGED FontSize
        /\ OnlyHelper

\* UpdateAccessibilitySettings if it stored its argument without testing it
HelperUpdateAccessibilitySettings_StoresNull ==
    \E InSettings \in InSettingsArgs :
        /\ AccessibilitySettings' = InSettings
        /\ helperOp' = [op |-> "UpdateAccessibilitySettings", InSettings |-> InSettings]
        /\ UNCHANGED FontSize
        /\ OnlyHelper

\* UALEJOUIHelper::UpdateAccessibilitySettings
HelperUpdateAccessibilitySettings ==
    \E InSettings \in InSettingsArgs :
        /\ AccessibilitySettings' =
               IF ~InSettings.null THEN InSettings ELSE AccessibilitySettings
        /\ helperOp' = [op |-> "UpdateAccessibilitySettings", InSettings |-> InSettings]
        /\ UNCHANGED FontSize
        /\ OnlyHelper

\* GetAccessibleColorPair(BackgroundColor, ForegroundColor, bIsButtonOrInteractive)
CallGetAccessibleColorPair ==
    \E bIsButtonOrInteractive \in BOOLEAN :
        LET Pair == GetAccessibleColorPair(AccessibilitySettings, bIsButtonOrInteractive)
        IN /\ helperOp' = [op |-> "GetAccessibleColorPair",
                           bIsButtonOrInteractive |-> bIsButtonOrInteractive,
                           OutBackgroundColor |-> Pair[1],
                           OutForegroundColor |-> Pair[2]]
           /\ UNCHANGED <<AccessibilitySettings, FontSize>>
           /\ OnlyHelper

\* GetContrastRatio(BackgroundColor, ForegroundColor) of the pair just returned
CallGetContrastRatio ==
    /\ helperOp.op = "GetAccessibleColorPair"
    /\ helperOp' = [op |-> "GetContrastRatio",
                    bIsButtonOrInteractive |-> helperOp.bIsButtonOrInteractive,
                    Color1 |-> helperOp.OutBackgroundColor,
                    Color2 |-> helperOp.OutForegroundColor,
                    ratio |-> GetContrastRatio(helperOp.OutBackgroundColor,
                                               helperOp.OutForegroundColor)]
    /\ UNCHANGED <<AccessibilitySettings, FontSize>>
    /\ OnlyHelper

\* colours a caller hands to GetContrastRatio
TestColors ==
    {FLinearColor(0, 0, 0), FLinearColor(10000, 10000, 10000),
     FLinearColor(10000, 10000, 0), FLinearColor(0, 0, 8000),
     FLinearColor(300, 5000, 392), FLinearColor(2000, 2000, 2000)}

\* GetContrastRatio(Color1, Color2) on colours of the caller's choosing
TestContrastRatio ==
    \E Color1 \in TestColors, Color2 \in TestColors :
        /\ helperOp' = [op |-> "TestContrastRatio", Color1 |-> Color1, Color2 |-> Color2,
                        ratio |-> GetContrastRatio(Color1, Color2)]
        /\ UNCHANGED <<AccessibilitySettings, FontSize>>
        /\ OnlyHelper

\* FMath::RoundToInt of a product of a size and a factor held in hundredths
RoundToInt(x) == (x + 50) \div 100

\* ApplyFontScalingRecursive if it clamped the factor to [0.5, 3.0] again
ApplyFontScalingRecursive_Reclamps(OriginalSize, ScaleFactor) ==
    RoundToInt(OriginalSize * (IF ScaleFactor > 300 THEN 300
                               ELSE IF ScaleFactor < 50 THEN 50 ELSE ScaleFactor))

\* ApplyFontScalingRecursive on a text block: the size SetFontSize is given
ApplyFontScalingRecursive(OriginalSize, ScaleFactor) ==
    RoundToInt(OriginalSize * ScaleFactor)

\* UALEJOUIHelper::ApplyFontScaling(TargetWidget) on a widget with one text block
CallApplyFontScaling ==
    LET Again == /\ helperOp.op = "ApplyFontScaling"
                 /\ helperOp.Settings = AccessibilitySettings
        NewSize == IF AccessibilitySettings.null THEN FontSize
                   ELSE ApplyFontScalingRecursive(FontSize,
                            AccessibilitySettings.obj.FontScaleFactor)
        n == IF Again THEN helperOp.n + 1 ELSE 1
    IN /\ NewSize <= MaxFontSize
       /\ n <= MaxApplications
       /\ FontSize' = NewSize
       /\ helperOp' = [op |-> "ApplyFontScaling", Settings |-> AccessibilitySettings,
                       OriginalSize |-> FontSize, n |-> n,
                       first |-> IF Again THEN helperOp.first ELSE FontSize]
       /\ UNCHANGED AccessibilitySettings
       /\ OnlyHelper

HelperInit == Init /\ AsObject = "nullptr"

HelperNext ==
    \/ HelperInitialize
    \/ HelperUpdateAccessibilitySettings
    \/ CallGetAccessibleColorPair
    \/ CallGetContrastRatio
    \/ TestContrastRatio
    \/ CallApplyFontScaling

HelperSpec == HelperInit /\ [][HelperNext]_vars

(***************************************************************************)
(* UALEJOAccessibleWidget with its UALEJOUIHelper and the subsystem of its *)
(* game instance: the announcement throttle, the voice-input shortcut and  *)
(* the calls the handlers forward to the subsystem.  A handler's result is *)
(* a record: the widget's members afterwards, the announcements it asked   *)
(* for, the calls it made to the helper, the announcements handed to the   *)
(* platform and the calls made to the subsystem, each in order.            *)
(***************************************************************************)
\* 1.0f seconds on the game clock, which is counted in half seconds
Second == 2

\* a call of a send operation of the subsystem
SubsystemCall(fn, a, b) == [fn |-> fn, a |-> a, b |-> b]

\* FString::Printf(TEXT("{\"message\":\"%s\"}"), *Message), for a message
\* without quotes or backslashes
AnnounceEventData(Message) == Serialize([k \in {"message"} |-> JString(Message)])

\* UALEJOUIHelper::AnnounceToScreenReader without its first test
UIHelper_AnnounceToScreenReader_NoGuard(Settings, Message, bInterrupt) ==
    [announced |-> <<[Message |-> Message,
                      Layer |-> IF bInterrupt THEN "Override" ELSE "Default"]>>,
     forwarded |-> <<SubsystemCall("SendCustomEvent", Str("ui.screenreader.announce"),
                                   AnnounceEventData(Message))>>]

\* UALEJOUIHelper::AnnounceToScreenReader
UIHelper_AnnounceToScreenReader(Settings, Message, bInterrupt) ==
    IF Settings.null \/ ~Settings.obj.bScreenReaderEnabled
    THEN [announced |-> <<>>, forwarded |-> <<>>]
    ELSE [announced |-> <<[Message |-> Message,
                           Layer |-> IF bInterrupt THEN "Override" ELSE "Default"]>>,
          forwarded |-> <<SubsystemCall("SendCustomEvent", Str("ui.screenreader.announce"),
                                        AnnounceEventData(Message))>>]

\* a handler that announces nothing and forwards nothing
Nothing(w) ==
    [w |-> w, anns |-> <<>>, helperCalls |-> <<>>, announced |-> <<>>, forwarded |-> <<>>]

\* the widget's AnnounceToScreenReader if a dropped request restarted the wait
Widget_AnnounceToScreenReader_StampsDropped(w, Helper, Message, bInterrupt) ==
    LET Request == [Message |-> Message, bInterrupt |-> bInterrupt, at |-> CurrentTime,
                    last |-> w.LastAnnouncementTime]
        Stamped == [w EXCEPT !.LastAnnouncementTime = CurrentTime]
    IN IF CurrentTime - w.LastAnnouncementTime < Second /\ ~bInterrupt
       THEN [Nothing(Stamped) EXCEPT !.anns = <<Request>>]
       ELSE LET H == UIHelper_AnnounceToScreenReader(Helper, Message, bInterrupt)
            IN [w |-> Stamped,
                anns |-> <<Request>>,
                helperCalls |-> <<[Settings |-> Helper, Message |-> Message,
                                   bInterrupt |-> bInterrupt]>>,
                announced |-> H.announced,
                forwarded |-> H.forwarded]

\* UALEJOAccessibleWidget::AnnounceToScreenReader; Helper is the settings object
\* its UIHelper holds.  A request is accepted when it gets past the early return.
Widget_AnnounceToScreenReader(w, Helper, Message, bInterrupt) ==
    LET Request == [Message |-> Message, bInterrupt |-> bInterrupt, at |-> CurrentTime,
                    last |-> w.LastAnnouncementTime]
    IN IF CurrentTime - w.LastAnnouncementTime < Second /\ ~bInterrupt
       THEN [Nothing(w) EXCEPT !.anns = <<Request>>]
       ELSE LET H == UIHelper_AnnounceToScreenReader(Helper, Message, bInterrupt)
            IN [w |-> [w EXCEPT !.LastAnnouncementTime = CurrentTime],
                anns |-> <<Request>>,
                helperCalls |-> <<[Settings |-> Helper, Message |-> Message,
                                   bInterrupt |-> bInterrupt]>>,
                announced |-> H.announced,
                forwarded |-> H.forwarded]

\* the screen reader is on in the settings the widget holds
WidgetScreenReader(w) ==
    ~w.AccessibilitySettings.null /\ w.AccessibilitySettings.obj.bScreenReaderEnabled

\* Context of OnVoiceInputReceived: source and widget_name
WidgetContext ==
    [k \in {"source", "widget_name"} |->
        IF k = "source" THEN Str("accessible_widget") ELSE Str("AccessibleWidget_0")]

\* UALEJOAccessibleWidget::OnVoiceInputReceived
OnVoiceInputReceived(w, Helper, VoiceCommand) ==
    IF VoiceCommand = Str("")
    THEN Nothing(w)
    ELSE LET Cleared == [w EXCEPT !.bIsWaitingForVoiceInput = FALSE]
             A == IF WidgetScreenReader(Cleared)
                  THEN Widget_AnnounceToScreenReader(Cleared, Helper,
                           Str("Voice command received: " \o VoiceCommand.text), TRUE)
                  ELSE Nothing(Cleared)
         IN [A EXCEPT !.forwarded =
                Append(@, SubsystemCall("ProcessVoiceCommand", VoiceCommand, WidgetContext))]

\* HandleVoiceCommandShortcut if it told the subsystem of every toggle
HandleVoiceCommandShortcut_AlwaysNotifies(w, Helper, bCtrlSpace) ==
    IF ~bCtrlSpace
    THEN Nothing(w)
    ELSE LET Toggled == [w EXCEPT !.bIsWaitingForVoiceInput = ~@]
             A == IF WidgetScreenReader(Toggled)
                  THEN Widget_AnnounceToScreenReader(Toggled, Helper,
                           IF Toggled.bIsWaitingForVoiceInput
                           THEN Str("Voice command mode activated. Please speak now.")
                           ELSE Str("Voice command mode deactivated."), TRUE)
                  ELSE Nothing(Toggled)
         IN [A EXCEPT !.forwarded =
                Append(@, SubsystemCall("SendCustomEvent", Str("voice.listening.start"),
                                        Serialize(EmptyObject)))]

\* UALEJOAccessibleWidget::HandleVoiceCommandShortcut; bCtrlSpace is
\* InKeyEvent.IsControlDown() && InKeyEvent.GetKey() == EKeys::SpaceBar
HandleVoiceCommandShortcut(w, Helper, bCtrlSpace) ==
    IF ~bCtrlSpace
    THEN Nothing(w)
    ELSE LET Toggled == [w EXCEPT !.bIsWaitingForVoiceInput = ~@]
             A == IF WidgetScreenReader(Toggled)
                  THEN Widget_AnnounceToScreenReader(Toggled, Helper,
                           IF Toggled.bIsWaitingForVoiceInput
                           THEN Str("Voice command mode activated. Please speak now.")
                           ELSE Str("Voice command mode deactivated."), TRUE)
                  ELSE Nothing(Toggled)
         IN IF Toggled.bIsWaitingForVoiceInput
            THEN [A EXCEPT !.forwarded =
                     Append(@, SubsystemCall("SendCustomEvent",
                                             Str("voice.listening.start"),
                                             Serialize(EmptyObject)))]
            ELSE A

\* the frame SendCustomEvent writes for a call made while connected
CustomEventFrame(EventType, EventData) ==
    LET MessageObj == SetField(EmptyObject, "type", JString(EventType))
        DataObj == Deserialize(EventData)
    IN IF DataObj[1]
       THEN Serialize(SetField(MessageObj, "data", JObject(DataObj[2])))
       ELSE Serialize(SetField(MessageObj, "data", JString(EventData)))

\* the frame ProcessVoiceCommand writes for a call made while connected
VoiceCommandFrame(Command, Context) ==
    Serialize(MessageWithContext("command", Command, Context))

FrameOf(c) ==
    IF c.fn = "SendCustomEvent" THEN CustomEventFrame(c.a, c.b)
    ELSE VoiceCommandFrame(c.a, c.b)

\* the subsystem runs the send operations a handler called, one after the
\* other; IsConnected() is the same for all of them, so all take the early
\* return or all write their frame
ForwardAll(Forwarded) ==
    LET n == Len(Forwarded)
    IN /\ calls + n <= MaxForwarded
       /\ calls' = calls + n
       /\ IF ~IsConnected
          THEN /\ out' = [i \in 1..n |-> Notify("OnError", <<NotConnectedMsg>>)]
               /\ written' = <<>>
               /\ rejected' = rejected \cup {calls + i : i \in 1..n}
               /\ UNCHANGED wire
          ELSE /\ out' = <<>>
               /\ written' = [i \in 1..n |-> [sock |-> WebSocket,
                                              frame |-> FrameOf(Forwarded[i])]]
               /\ wire' = wire \o [i \in 1..n |-> calls + i]
               /\ UNCHANGED rejected
       /\ UNCHANGED <<WebSocket, sock>>

\* a handler of the widget ran with result r; the widget lives inside a
\* running game instance, whose subsystem has been initialized
WidgetStep(name, args, r) ==
    /\ phase = "active"
    /\ widget' = r.w
    /\ widgetOp' = [op |-> name, args |-> args, before |-> widget, anns |-> r.anns,
                    helperCalls |-> r.helperCalls, announced |-> r.announced,
                    forwarded |-> r.forwarded]
    /\ ForwardAll(r.forwarded)
    /\ lastOp' = Op(name, nullptr)
    /\ NoArgs
    /\ UNCHANGED <<phase, timer, AsObject, profileVars, helperOp, CurrentTime>>

\* settings objects handed to the widget
WidgetProfiles == {NewObject, [NewObject EXCEPT !.bScreenReaderEnabled = TRUE]}
Messages == {Str("Score updated")}
VoiceCommands == {Str(""), Str("open menu")}

\* UALEJOAccessibleWidget::SetAccessibilitySettings: the helper is given the
\* same object, the text block is rescaled, and a change is announced
WidgetSetAccessibilitySettings ==
    \E InSettings \in {NullSettings} \cup {SettingsPtr(P) : P \in WidgetProfiles} :
        IF InSettings.null
        THEN /\ WidgetStep("SetAccessibilitySettings", <<InSettings>>, Nothing(widget))
             /\ UNCHANGED <<AccessibilitySettings, FontSize>>
        ELSE LET Held == [widget EXCEPT !.AccessibilitySettings = InSettings]
             IN /\ AccessibilitySettings' = InSettings
                /\ FontSize' = ApplyFontScalingRecursive(FontSize,
                                                         InSettings.obj.FontScaleFactor)
                /\ FontSize' <= MaxFontSize
                /\ WidgetStep("SetAccessibilitySettings", <<InSettings>>,
                       IF InSettings.obj.bScreenReaderEnabled
                       THEN Widget_AnnounceToScreenReader(Held, InSettings,
                                Str("Accessibility settings updated"), TRUE)
                       ELSE Nothing(Held))

\* a caller invokes the widget's AnnounceToScreenReader(Message, bInterrupt)
WidgetAnnounceToScreenReader ==
    \E Message \in Messages, bInterrupt \in BOOLEAN :
        /\ WidgetStep("AnnounceToScreenReader", <<Message, bInterrupt>>,
                      Widget_AnnounceToScreenReader(widget, AccessibilitySettings, Message,
                                                    bInterrupt))
        /\ UNCHANGED <<AccessibilitySettings, FontSize>>

\* the speech recogniser hands the widget a command
WidgetOnVoiceInputReceived ==
    \E VoiceCommand \in VoiceCommands :
        /\ WidgetStep("OnVoiceInputReceived", <<VoiceCommand>>,
                      OnVoiceInputReceived(widget, AccessibilitySettings, VoiceCommand))
        /\ UNCHANGED <<AccessibilitySettings, FontSize>>

\* UALEJOAccessibleWidget::NativeOnKeyDown
WidgetNativeOnKeyDown ==
    \E bCtrlSpace \in BOOLEAN :
        /\ WidgetStep("NativeOnKeyDown", <<bCtrlSpace>>,
                      HandleVoiceCommandShortcut(widget, AccessibilitySettings, bCtrlSpace))
        /\ UNCHANGED <<AccessibilitySettings, FontSize>>

\* half a second passes on the game clock
Tick ==
    /\ CurrentTime < MaxTime
    /\ CurrentTime' = CurrentTime + 1
    /\ UNCHANGED <<bridgeVars, AsObject, profileVars, helperVars, widget, widgetOp>>

WidgetInit == Init /\ AsObject = "nullptr"

WidgetNext ==
    \/ Initialize
    \/ TimerFires
    \/ TransportOpened
    \/ WidgetSetAccessibilitySettings
    \/ WidgetAnnounceToScreenReader
    \/ WidgetOnVoiceInputReceived
    \/ WidgetNativeOnKeyDown
    \/ Tick

WidgetSpec == WidgetInit /\ [][WidgetNext]_vars

(***************************************************************************)
(* Properties.                                                             *)
(***************************************************************************)
SendOps == {"ProcessText", "ProcessVoiceCommand", "UpdateAccessibilitySettings",
            "SendCustomEvent"}
ConnectOps == {"Connect", "TimerConnect"}

OneError == Len(out) = 1 /\ out[1].ch = "OnError"

\* C1: a send operation called while the connection is not Connected makes
\* exactly one broadcast, on OnError, and hands no frame to the socket.
C1_RejectedSendReportsOnce ==
    (lastOp.op \in SendOps /\ lastOp.pre # "Connected") =>
        /\ OneError
        /\ out[1].args \in {<<NotConnectedMsg>>, <<NotConnectedOrInvalidMsg>>}
        /\ written = <<>>
        /\ calls \in rejected
        /\ \A i \in 1..Len(wire) : wire[i] # calls

C1_Witness ==
    /\ lastOp.op = "ProcessText"
    /\ lastOp.pre = "Connecting"
    /\ out = <<Notify("OnError", <<NotConnectedMsg>>)>>
    /\ written = <<>>

\* C2: nothing is queued: a rejected send is never written later, a frame is
\* written only inside the send call it belongs to, and no call writes twice.
C2_NoOutboundQueue ==
    /\ \A i \in 1..Len(wire) : wire[i] \notin rejected
    /\ \A i, j \in 1..Len(wire) : i # j => wire[i] # wire[j]
    /\ Len(written) <= 1
    /\ written # <<>> =>
           /\ lastOp.op \in SendOps
           /\ wire # <<>>
           /\ wire[Len(wire)] = calls

C2_Witness ==
    /\ rejected # {}
    /\ IsConnected
    /\ written # <<>>
    /\ \E id \in rejected : id < wire[Len(wire)]

\* C3: Connect() called while the connection is Connecting or Connected
\* changes neither the member nor the connection state.
C3_ConnectIsNoOpUnlessDisconnected ==
    (lastOp.op \in ConnectOps /\ lastOp.pre # "Disconnected") =>
        /\ WebSocket = lastOp.ws
        /\ State = lastOp.pre

\* C4: at most one socket of the connection is open or opening.
C4_AtMostOneLiveSocket == Cardinality(LiveSockets) <= 1

\* C5: Connect() from Disconnected opens a new socket and leaves the
\* connection Connecting with IsConnected() false; IsConnected() turns true
\* only in the OnConnected callback of the member's socket, which broadcasts
\* OnConnected once.
C5_ConnectThenOpened ==
    [][/\ (lastOp'.op \in ConnectOps /\ State = "Disconnected") =>
              /\ State' = "Connecting"
              /\ ~IsConnected'
              /\ WebSocket' \notin {nullptr, WebSocket}
              /\ sock[WebSocket'] = "free"
       /\ (~IsConnected /\ IsConnected') =>
              /\ lastOp'.op = "OnConnected"
              /\ lastOp'.s = WebSocket'
              /\ out' = <<Notify("OnConnected", <<>>)>>]_vars

C5_Witness ==
    /\ lastOp.op = "OnConnected"
    /\ lastOp.pre = "Connecting"
    /\ lastOp.cur
    /\ IsConnected
    /\ out = <<Notify("OnConnected", <<>>)>>

\* C6: Disconnect() called while Connected closes the socket and leaves
\* IsConnected() false on return; a send that comes next is rejected with
\* one OnError broadcast and writes nothing.
C6_DisconnectIsSynchronous ==
    [][/\ (lastOp'.op = "Disconnect" /\ State = "Connected") =>
              /\ ~IsConnected'
              /\ State' = "Disconnected"
              /\ sock'[WebSocket] = "closing"
       /\ (lastOp.op = "Disconnect" /\ lastOp.pre = "Connected" /\ lastOp'.op \in SendOps) =>
              /\ Len(out') = 1
              /\ out'[1].ch = "OnError"
              /\ written' = <<>>]_vars

C6_Witness ==
    /\ lastOp.op \in SendOps
    /\ lastOp.ws = nullptr
    /\ \E s \in SocketIds : sock[s] = "closing"
    /\ out = <<Notify("OnError", <<NotConnectedMsg>>)>>
    /\ written = <<>>

\* C7: after Disconnect() or Deinitialize the socket the member pointed to
\* is neither open nor opening, whatever state it was in.
C7_TeardownClosesSocket ==
    (lastOp.op \in {"Disconnect", "Deinitialize"} /\ lastOp.ws # nullptr) =>
        sock[lastOp.ws] \notin {"connecting", "open"}

\* C8: after the member's socket reports an error, OnError was broadcast with
\* the transport's description, the connection is Disconnected and the
\* failed socket is no longer held.
C8_ErrorLandsInDisconnected ==
    (lastOp.op = "OnConnectionError" /\ lastOp.cur) =>
        /\ OneError
        /\ out[1].args \in {<<e>> : e \in TransportErrors}
        /\ State = "Disconnected"
        /\ WebSocket = nullptr

C10_SendsAndFramesKeepState ==
    [][lastOp'.op \in SendOps \cup {"OnMessage"} =>
           /\ UNCHANGED <<WebSocket, sock>>
           /\ State' = State]_vars

C10_Witness ==
    /\ lastOp.op = "OnMessage"
    /\ lastOp.cur
    /\ lastOp.pre = "Connected"
    /\ out = <<Notify("OnError", <<InvalidJsonMsg>>)>>
    /\ State = "Connected"

(***************************************************************************)
(* Inbound dispatch.  A state reached by an OnMessage step holds the frame *)
(* in arg and the broadcasts HandleWebSocketMessage made for it in out.    *)
(***************************************************************************)
\* the step just taken handed a frame to OnMessage
Handled == lastOp.op = "OnMessage"
\* the JSON object of that frame, an empty object when it did not parse
HandledObject == Deserialize(arg[1])[2]
Parses == Handled /\ Deserialize(arg[1])[1]
\* the frame parsed to an object that has the key k
Has(k) == Parses /\ HasField(HandledObject, k)
\* the string value the frame holds under the key k
Field(k) == HandledObject[k].v
\* some broadcast of the last step went out on the delegate ch
Notified(ch) == \E i \in 1..Len(out) : out[i].ch = ch
\* the last step made exactly one broadcast, on ch with the one argument v
OnlyNotified(ch, v) == out = <<Notify(ch, <<v>>)>>

\* C11: a frame without `type` that has both `command` and `response` is a
\* voice result: OnVoiceProcessed is broadcast with the value of `response`
\* and OnTextProcessed is not broadcast.
C11_CommandWithResponseIsVoiceResult ==
    (~Has("type") /\ Has("command") /\ Has("response")) =>
        /\ \E i \in 1..Len(out) :
               out[i] = Notify("OnVoiceProcessed", <<Field("response")>>)
        /\ ~Notified("OnTextProcessed")

IsModeChange ==
    /\ Has("type") /\ Field("type") = Str("resource.mode.changed")
    /\ Has("data") /\ HandledObject.data.t = "object"
    /\ "mode" \in DOMAIN HandledObject.data.v
    /\ HandledObject.data.v.mode.t = "string"

\* C13: a resource.mode.changed frame whose `data` object has a string `mode`
\* is broadcast on OnALEJOEvent and on OnResourceModeChanged with that mode;
\* no other step broadcasts on OnResourceModeChanged.
C13_ModeChangeNotifiesBoth ==
    /\ IsModeChange =>
           /\ Notified("OnALEJOEvent")
           /\ \E i \in 1..Len(out) :
                  out[i] = Notify("OnResourceModeChanged", <<HandledObject.data.v.mode.v>>)
    /\ ~IsModeChange => ~Notified("OnResourceModeChanged")

\* a mode change was handled and made its two broadcasts
C13_Witness == IsModeChange /\ Len(out) = 2

\* C14: a frame that has `response` and neither `type` nor `command` makes
\* exactly one broadcast, on OnTextProcessed with the value of `response`.
C14_ResponseIsTextResult ==
    (Has("response") /\ ~Has("type") /\ ~Has("command")) =>
        OnlyNotified("OnTextProcessed", Field("response"))

\* a frame with `response` and `error` was handled as a text result
C14_Witness ==
    /\ Has("response") /\ Has("error") /\ ~Has("type") /\ ~Has("command")
    /\ out[1].ch = "OnTextProcessed"

\* C15: a frame that has `error` and none of `type`, `command` and
\* `response` makes exactly one broadcast, on OnError with the value of
\* `error`, and leaves the connection state as it was.
C15_ErrorFrameReportsOnce ==
    (Has("error") /\ ~Has("type") /\ ~Has("command") /\ ~Has("response")) =>
        /\ OnlyNotified("OnError", Field("error"))
        /\ State = lastOp.pre

\* an error frame was handled on the current socket while Connected
C15_Witness ==
    /\ Has("error") /\ ~Has("type") /\ ~Has("command") /\ ~Has("response")
    /\ lastOp.pre = "Connected" /\ lastOp.cur
    /\ out[1].ch = "OnError"

\* C16: a frame that parses to a JSON object with none of `type`,
\* `command`, `response` and `error` makes no broadcast.
C16_UnknownFrameIsSilent ==
    (Parses /\ ~Has("type") /\ ~Has("command") /\ ~Has("response") /\ ~Has("error")) =>
        out = <<>>

\* an object with an unrelated key was handled
C16_Witness == Parses /\ DOMAIN HandledObject = {"status"} /\ out = <<>>

\* C17: a frame that does not parse makes exactly one broadcast, on OnError;
\* the frame is dropped, the connection state stays as it was, and the
\* socket it came on can still deliver frames.
C17_BadFrameReportsAndKeepsConnection ==
    (Handled /\ ~Parses) =>
        /\ OnlyNotified("OnError", InvalidJsonMsg)
        /\ written = <<>>
        /\ State = lastOp.pre
        /\ sock[lastOp.s] = "open"
        /\ ENABLED TransportMessage

\* a frame that is not JSON was handled on the current socket while Connected
C17_Witness ==
    /\ Handled /\ ~Parses
    /\ lastOp.pre = "Connected" /\ lastOp.cur /\ State = "Connected"
    /\ Len(out) = 1

\* C18: inbound dispatch is ordered.  Every frame is handled in the step it
\* arrives in, and that step notifies all and only the observers of the
\* frame's message kind, once per delegate: an event for a frame with
\* `type` (and a mode change for resource.mode.changed), else a voice result
\* for a frame with `command`, else a text result for one with `response`,
\* else an error for one with `error` or for a frame that does not parse,
\* else nothing.
C18_FrameNotifiesObserversOfItsKind ==
    Handled =>
        LET Kind == IF ~Parses THEN {"OnError"}
                    ELSE IF Has("type")
                    THEN {"OnALEJOEvent"} \cup
                         (IF IsModeChange THEN {"OnResourceModeChanged"} ELSE {})
                    ELSE IF Has("command") THEN {"OnVoiceProcessed"}
                    ELSE IF Has("response") THEN {"OnTextProcessed"}
                    ELSE IF Has("error") THEN {"OnError"}
                    ELSE {}
        IN /\ {out[i].ch : i \in 1..Len(out)} = Kind
           /\ Len(out) = Cardinality(Kind)

(***************************************************************************)
(* Outbound frames.  A state reached by a send call holds the call's       *)
(* arguments in arg and what it handed to IWebSocket::Send in written.     *)
(***************************************************************************)
\* the last step was the send operation name, called while Connected
SentWhileConnected(name) == lastOp.op = name /\ lastOp.pre = "Connected"
\* exactly one frame was written, to the socket of the WebSocket member
WroteOne == Len(written) = 1 /\ written[1].sock = lastOp.ws
\* the one frame written, as the JSON object a reader makes of it
WrittenObject == Deserialize(written[1].frame)[2]
\* the JSON object whose fields are exactly the string pairs of a context map
ContextValue(Context) == JObject([k \in DOMAIN Context |-> JString(Context[k])])
\* the written frame is {field: input} plus `context` for a non-empty map
MatchesSchema(field) ==
    /\ Deserialize(written[1].frame)[1]
    /\ DOMAIN WrittenObject = {field} \cup (IF DOMAIN arg[2] = {} THEN {} ELSE {"context"})
    /\ WrittenObject[field] = JString(arg[1])
    /\ DOMAIN arg[2] # {} => WrittenObject.context = ContextValue(arg[2])

C20_CustomEventDataObjectOrString ==
    SentWhileConnected("SendCustomEvent") =>
        /\ WroteOne
        /\ Deserialize(written[1].frame)[1]
        /\ DOMAIN WrittenObject = {"type", "data"}
        /\ WrittenObject.type = JString(arg[1])
        /\ WrittenObject.data = IF arg[2].kind = "object"
                                THEN JObject(arg[2].fields)
                                ELSE JString(arg[2])

\* a data string that is a JSON object went out as a nested object
C20_Witness ==
    /\ SentWhileConnected("SendCustomEvent")
    /\ arg[2].kind = "object"
    /\ WroteOne /\ WrittenObject.data.t = "object"

\* C21: every outbound frame is self-describing.  The written object matches
\* the schema of exactly one kind of message, and that kind is the one of
\* the send operation that wrote it: Text has `text`, VoiceCommand has
\* `command` (each with at most `context` besides), CustomEvent is exactly
\* {type, data}, SettingsUpdate is exactly the settings keys.
C21_OutboundFrameIsSelfDescribing ==
    (lastOp.op \in SendOps /\ Len(written) = 1) =>
        LET Keys == DOMAIN WrittenObject
            Kinds ==
                {k \in SendOps :
                    \/ k = "ProcessText" /\ "text" \in Keys /\ Keys \subseteq {"text", "context"}
                    \/ k = "ProcessVoiceCommand" /\ "command" \in Keys
                           /\ Keys \subseteq {"command", "context"}
                    \/ k = "SendCustomEvent" /\ Keys = {"type", "data"}
                    \/ k = "UpdateAccessibilitySettings" /\ Keys = SettingsKeys}
        IN Deserialize(written[1].frame)[1] /\ Kinds = {lastOp.op}

\* UpdateAccessibilitySettings wrote a settings frame
C21_Witness ==
    /\ lastOp.op = "UpdateAccessibilitySettings" /\ Len(written) = 1
    /\ DOMAIN WrittenObject = SettingsKeys

\* C22: the data handed to OnALEJOEvent observers is always a string: a
\* `data` object is handed over re-serialised, a `data` string as that same
\* string.
C22_EventDataIsTheString ==
    (Has("type") /\ Has("data")) =>
        /\ HandledObject.data.t = "object" =>
               out[1] = Notify("OnALEJOEvent",
                               <<Field("type"), Serialize(HandledObject.data.v)>>)
        /\ HandledObject.data.t = "string" =>
               out[1] = Notify("OnALEJOEvent", <<Field("type"), Field("data")>>)

(***************************************************************************)
(* Settings objects.  A state reached by a FromJsonString step holds the   *)
(* string in profOp.payload, the return value in profOp.ret, the object    *)
(* before the call in profOp.before and after it in DeserializedSettings.  *)
(***************************************************************************)
Loaded == profOp.op = "FromJsonString"
\* the object the JSON reader makes of the string given to FromJsonString
LoadedObject == Deserialize(profOp.payload)[2]
\* the member each key of the settings JSON is written from and read into
MemberOf ==
    [highContrastMode |-> "bHighContrastMode", fontScaleFactor |-> "FontScaleFactor",
     colorBlindMode |-> "bColorBlindMode", colorBlindnessType |-> "ColorBlindnessType",
     screenReaderEnabled |-> "bScreenReaderEnabled",
     visualAlternativesToAudio |-> "bVisualAlternativesToAudio",
     signLanguageEnabled |-> "bSignLanguageEnabled",
     signLanguagePreference |-> "SignLanguagePreference",
     captionsEnabled |-> "bCaptionsEnabled", captionScaleFactor |-> "CaptionScaleFactor",
     hapticFeedbackEnabled |-> "bHapticFeedbackEnabled",
     inputHoldDuration |-> "InputHoldDuration",
     simplifiedGestureControls |-> "bSimplifiedGestureControls",
     simplifiedLanguage |-> "bSimplifiedLanguage", reducedMotion |-> "bReducedMotion",
     focusAssistance |-> "bFocusAssistance", readingSpeedFactor |-> "ReadingSpeedFactor"]
\* the bool members of a settings object
BoolMembers ==
    {"bHighContrastMode", "bColorBlindMode", "bScreenReaderEnabled",
     "bVisualAlternativesToAudio", "bSignLanguageEnabled", "bCaptionsEnabled",
     "bHapticFeedbackEnabled", "bSimplifiedGestureControls", "bSimplifiedLanguage",
     "bReducedMotion", "bFocusAssistance", "bKeyboardNavigationEnabled"}

\* C23: round-trip law.  Loading the string ToJsonString makes of a settings
\* object P into a settings object succeeds and leaves that object equal to
\* P in every field.
C23_RoundTripRestoresEveryField ==
    (Loaded /\ profOp.payload = ToJsonString(TestSettings)) =>
        profOp.ret /\ DeserializedSettings = TestSettings

\* C24: the keyboard-navigation flag survives serialisation: after loading
\* the string made of P into a freshly constructed object, that object has
\* P's bKeyboardNavigationEnabled.
C24_KeyboardNavigationSurvives ==
    (Loaded /\ profOp.payload = ToJsonString(TestSettings) /\ profOp.before = NewObject) =>
        DeserializedSettings.bKeyboardNavigationEnabled =
            TestSettings.bKeyboardNavigationEnabled

\* C25: FromJsonString on a string that parses to a JSON object returns true
\* whatever keys are there, none included; every member whose key is there
\* has the value of the key, every other member the value it had before.
C25_LoadOverwritesOnlyMatchedFields ==
    (Loaded /\ Deserialize(profOp.payload)[1]) =>
        /\ profOp.ret
        /\ \A k \in SettingsKeys :
               DeserializedSettings[MemberOf[k]] =
                   IF k \in DOMAIN LoadedObject
                   THEN (IF LoadedObject[k].t = "string" THEN LoadedObject[k].v.text
                         ELSE LoadedObject[k].v)
                   ELSE profOp.before[MemberOf[k]]
        /\ DeserializedSettings.bKeyboardNavigationEnabled =
               profOp.before.bKeyboardNavigationEnabled

\* an object with no known key was loaded into an object that was not fresh
C25_Witness ==
    /\ Loaded /\ DOMAIN LoadedObject = {"invalid"} /\ profOp.ret
    /\ profOp.before # NewObject /\ DeserializedSettings = profOp.before

\* C26: FromJsonString on a string that does not parse to an object returns
\* false and leaves every member as it was.
C26_BadPayloadFailsAndKeepsFields ==
    (Loaded /\ ~Deserialize(profOp.payload)[1]) =>
        ~profOp.ret /\ DeserializedSettings = profOp.before

\* a string that is not JSON was loaded into an object that was not fresh
C26_Witness ==
    /\ Loaded /\ ~Deserialize(profOp.payload)[1] /\ ~profOp.ret
    /\ profOp.before # NewObject

\* C27: range invariant.  After construction and after every FromJsonString
\* call FontScaleFactor and CaptionScaleFactor are in [0.5, 3.0],
\* InputHoldDuration in [0.1, 2.0] and ReadingSpeedFactor in [0.5, 2.0].
C27_NumericFieldsStayInRange ==
    profOp.op \in {"NewObject", "FromJsonString"} =>
        /\ DeserializedSettings.FontScaleFactor \in 50..300
        /\ DeserializedSettings.CaptionScaleFactor \in 50..300
        /\ DeserializedSettings.InputHoldDuration \in 10..200
        /\ DeserializedSettings.ReadingSpeedFactor \in 50..200

\* C28: a newly constructed settings object has captions and haptic feedback
\* on, every other bool member off, and every scale factor 1.0.
C28_ConstructorDefaults ==
    profOp.op = "NewObject" =>
        /\ \A f \in BoolMembers :
               DeserializedSettings[f] = (f \in {"bCaptionsEnabled", "bHapticFeedbackEnabled"})
        /\ DeserializedSettings.FontScaleFactor = 100
        /\ DeserializedSettings.CaptionScaleFactor = 100
        /\ DeserializedSettings.ReadingSpeedFactor = 100

\* an object that had been loaded was replaced by a newly constructed one
C28_Witness ==
    /\ profOp.op = "NewObject" /\ profOp.before # NewObject
    /\ DeserializedSettings.bCaptionsEnabled

(***************************************************************************)
(* The UI helper's colours.                                                *)
(***************************************************************************)
\* the helper holds a settings object with this flag set
HelperFlag(f) == ~AccessibilitySettings.null /\ AccessibilitySettings.obj[f]

\* C29: high contrast takes priority in GetAccessibleColorPair: whenever
\* bHighContrastMode is set the pair is the high-contrast pair for the given
\* bIsButtonOrInteractive (white on dark blue, or yellow on black), whatever
\* bColorBlindMode is.
C29_HighContrastTakesPriority ==
    (helperOp.op = "GetAccessibleColorPair" /\ HelperFlag("bHighContrastMode")) =>
        /\ helperOp.bIsButtonOrInteractive =>
               /\ helperOp.OutBackgroundColor = FLinearColor(0, 0, 8000)
               /\ helperOp.OutForegroundColor = FLinearColor(10000, 10000, 10000)
        /\ ~helperOp.bIsButtonOrInteractive =>
               /\ helperOp.OutBackgroundColor = FLinearColor(0, 0, 0)
               /\ helperOp.OutForegroundColor = FLinearColor(10000, 10000, 0)

\* a pair was asked for with high contrast and colour-blind mode both set
C29_Witness ==
    /\ helperOp.op = "GetAccessibleColorPair"
    /\ HelperFlag("bHighContrastMode") /\ HelperFlag("bColorBlindMode")
    /\ helperOp.bIsButtonOrInteractive

\* C30: for both values of bIsButtonOrInteractive the contrast ratio of the
\* pair GetAccessibleColorPair returns is at least 7.0 when bHighContrastMode
\* is set and at least 4.5 when no flag is set.
C30_PairContrastIsSufficient ==
    helperOp.op = "GetContrastRatio" =>
        /\ HelperFlag("bHighContrastMode") => helperOp.ratio >= 70000
        /\ (~HelperFlag("bHighContrastMode") /\ ~HelperFlag("bColorBlindMode")) =>
               helperOp.ratio >= 45000

\* the ratio of the high-contrast pair for plain text was computed
C30_Witness ==
    /\ helperOp.op = "GetContrastRatio"
    /\ HelperFlag("bHighContrastMode") /\ ~helperOp.bIsButtonOrInteractive
    /\ helperOp.ratio >= 70000

\* C31: GetContrastRatio is symmetric: the ratio computed for (Color1, Color2)
\* is the ratio of (Color2, Color1).
C31_ContrastRatioIsSymmetric ==
    helperOp.op = "TestContrastRatio" =>
        helperOp.ratio = GetContrastRatio(helperOp.Color2, helperOp.Color1)

\* the ratio of a darker second colour against a lighter first one was taken
C31_Witness ==
    /\ helperOp.op = "TestContrastRatio"
    /\ helperOp.Color1 = FLinearColor(10000, 10000, 0)
    /\ helperOp.Color2 = FLinearColor(300, 5000, 392)
    /\ helperOp.ratio > One

\* C32: the contrast ratio of black and white is 21.0 within 0.1.
C32_BlackOnWhiteIsTwentyOne ==
    (/\ helperOp.op = "TestContrastRatio"
     /\ {helperOp.Color1, helperOp.Color2} =
            {FLinearColor(0, 0, 0), FLinearColor(10000, 10000, 10000)}) =>
        /\ helperOp.ratio >= 209000
        /\ helperOp.ratio <= 211000

\* the ratio of black against white was taken
C32_Witness ==
    /\ helperOp.op = "TestContrastRatio"
    /\ helperOp.Color1 = FLinearColor(0, 0, 0)
    /\ helperOp.Color2 = FLinearColor(10000, 10000, 10000)
    /\ helperOp.ratio = 210000

\* C33: after Initialize, whatever its argument, GetAccessibilitySettings()
\* is not null, and no later call makes it null: UpdateAccessibilitySettings
\* with a null argument keeps the current settings object and with a
\* non-null argument holds exactly that object afterwards.
C33_SettingsStayNonNull ==
    [][/\ helperOp'.op = "Initialize" =>
              /\ ~AccessibilitySettings'.null
              /\ ~helperOp'.InSettings.null => AccessibilitySettings' = helperOp'.InSettings
       /\ ~AccessibilitySettings.null => ~AccessibilitySettings'.null
       /\ helperOp'.op = "UpdateAccessibilitySettings" =>
              AccessibilitySettings' =
                  IF helperOp'.InSettings.null THEN AccessibilitySettings
                  ELSE helperOp'.InSettings]_vars

\* UpdateAccessibilitySettings(nullptr) was called on a helper holding
\* settings that are not the defaults
C33_Witness ==
    /\ helperOp.op = "UpdateAccessibilitySettings"
    /\ helperOp.InSettings.null
    /\ ~AccessibilitySettings.null
    /\ AccessibilitySettings.obj.bHighContrastMode

\* the n-fold iterate of s -> round(s * factor)
RECURSIVE Iterate(_, _, _)
Iterate(s, factor, n) ==
    IF n = 0 THEN s ELSE Iterate(RoundToInt(s * factor), factor, n - 1)

\* C34: ApplyFontScaling sets the text block's size to round(size at the time
\* of the call * FontScaleFactor of the helper's settings), with the factor
\* used as it stands in the settings, so n calls in a row under one settings
\* object give the n-fold iterate of s -> round(s * factor) of the size the
\* first call found.
C34_FontScalingIterates ==
    (helperOp.op = "ApplyFontScaling" /\ ~helperOp.Settings.null) =>
        /\ FontSize = RoundToInt(helperOp.OriginalSize * helperOp.Settings.obj.FontScaleFactor)
        /\ FontSize = Iterate(helperOp.first, helperOp.Settings.obj.FontScaleFactor, helperOp.n)

\* the third call in a row with factor 1.5 rounded 40.5 up to 41
C34_Witness ==
    /\ helperOp.op = "ApplyFontScaling"
    /\ ~helperOp.Settings.null
    /\ helperOp.Settings.obj.FontScaleFactor = 150
    /\ helperOp.n = 3
    /\ helperOp.first = BaseFontSize
    /\ FontSize = 41

(***************************************************************************)
(* Lifecycle notifications.                                                *)
(***************************************************************************)
\* C35: whenever the connected observers are notified, IsConnected() is true
\* and the socket that reported opened is the socket the WebSocket member
\* points to.
C35_ConnectedNotificationIsCurrent ==
    (lastOp.op = "OnConnected" /\ Notified("OnConnected")) =>
        /\ IsConnected
        /\ lastOp.s = WebSocket

\* C36: every step that takes the connection from Connected to Disconnected
\* is answered by one disconnected notification (made by that step when the
\* peer closed the socket, or owed by the socket Disconnect() has just asked
\* to close), and a disconnected notification is only made by such a step or
\* by the completion of a close that Disconnect() asked for.
C36_DisconnectedOncePerTransition ==
    [][/\ (State = "Connected" /\ State' = "Disconnected") =>
              \/ out' = <<Notify("OnDisconnected", <<>>)>>
              \/ sock'[WebSocket] = "closing" /\ out' = <<>>
       /\ (\E i \in 1..Len(out') : out'[i].ch = "OnDisconnected") =>
              /\ out' = <<Notify("OnDisconnected", <<>>)>>
              /\ \/ State = "Connected" /\ State' = "Disconnected"
                 \/ sock[lastOp'.s] = "closing"]_vars

\* C37: once Deinitialize has run no connection attempt is started: no step
\* taken after teardown creates a socket, the timer set by Initialize
\* included.
C37_NoConnectAfterDeinitialize ==
    [][phase = "deinit" =>
           /\ \A s \in SocketIds : sock[s] = "free" => sock'[s] = "free"
           /\ lastOp'.op # "TimerConnect"]_vars

(***************************************************************************)
(* The accessible widget.                                                  *)
(***************************************************************************)
\* the last step of the game instance was this handler of the widget
WidgetRan(name) == lastOp.op = name /\ widgetOp.op = name
\* the handler that ran last asked its UIHelper to announce
Accepted == widgetOp.helperCalls # <<>>
\* how many of the calls the handler made to the subsystem are fn(a, _)
Forwards(fn, a) ==
    Cardinality({i \in 1..Len(widgetOp.forwarded) :
                    widgetOp.forwarded[i].fn = fn /\ widgetOp.forwarded[i].a = a})

\* C38: an announcement that does not interrupt and is requested less than
\* 1.0 second after the last accepted one is dropped and leaves
\* LastAnnouncementTime as it was; an interrupting one is always accepted;
\* an accepted one sets LastAnnouncementTime to the time of the request, so
\* an accepted announcement that does not interrupt comes at least 1.0
\* second after the accepted announcement before it.
C38_AnnouncementThrottle ==
    widgetOp.op # "none" =>
        \A i \in 1..Len(widgetOp.anns) :
            LET Request == widgetOp.anns[i]
                Last == widgetOp.before.LastAnnouncementTime
            IN /\ (Request.at - Last < Second /\ ~Request.bInterrupt) =>
                      ~Accepted /\ widget.LastAnnouncementTime = Last
               /\ Request.bInterrupt => Accepted
               /\ Accepted => widget.LastAnnouncementTime = Request.at
               /\ (Accepted /\ ~Request.bInterrupt) => Request.at - Last >= Second

\* half a second after an accepted announcement one that does not interrupt
\* was dropped
C38_Witness ==
    /\ widgetOp.op = "AnnounceToScreenReader"
    /\ ~widgetOp.args[2]
    /\ ~Accepted
    /\ widgetOp.before.LastAnnouncementTime > 0
    /\ widgetOp.anns[1].at - widgetOp.before.LastAnnouncementTime = 1

\* C39: a Ctrl+Space key press toggles bIsWaitingForVoiceInput and sends the
\* voice.listening.start custom event once if the flag is now set and not at
\* all if it is now clear; a voice command that is not empty clears the flag
\* and is forwarded in exactly one ProcessVoiceCommand call; an empty voice
\* command changes nothing and forwards nothing.
C39_VoiceInputMode ==
    /\ (widgetOp.op = "NativeOnKeyDown" /\ widgetOp.args[1]) =>
           /\ widget.bIsWaitingForVoiceInput = ~widgetOp.before.bIsWaitingForVoiceInput
           /\ Forwards("SendCustomEvent", Str("voice.listening.start")) =
                  IF widget.bIsWaitingForVoiceInput THEN 1 ELSE 0
    /\ (widgetOp.op = "OnVoiceInputReceived" /\ widgetOp.args[1] # Str("")) =>
           /\ ~widget.bIsWaitingForVoiceInput
           /\ Forwards("ProcessVoiceCommand", widgetOp.args[1]) = 1
           /\ Cardinality({i \in 1..Len(widgetOp.forwarded) :
                              widgetOp.forwarded[i].fn = "ProcessVoiceCommand"}) = 1
    /\ (widgetOp.op = "OnVoiceInputReceived" /\ widgetOp.args[1] = Str("")) =>
           /\ widget = widgetOp.before
           /\ widgetOp.forwarded = <<>>
           /\ widgetOp.announced = <<>>

\* with the screen reader on, Ctrl+Space switched voice input on while the
\* subsystem was connected: the announcement event and the start event
\* were written
C39_Witness ==
    /\ WidgetRan("NativeOnKeyDown")
    /\ widgetOp.args[1]
    /\ widget.bIsWaitingForVoiceInput
    /\ Len(widgetOp.forwarded) = 2
    /\ Len(written) = 2

\* C40: when the helper holds no settings object or one whose
\* bScreenReaderEnabled is false, its AnnounceToScreenReader hands nothing to
\* the platform and sends no ui.screenreader.announce event, so a handler
\* that makes no other call leaves the subsystem silent: no OnError, no frame.
C40_AnnounceWithoutScreenReaderIsSilent ==
    widgetOp.op # "none" =>
        \A i \in 1..Len(widgetOp.helperCalls) :
            LET Settings == widgetOp.helperCalls[i].Settings
            IN (Settings.null \/ ~Settings.obj.bScreenReaderEnabled) =>
                   /\ widgetOp.announced = <<>>
                   /\ Forwards("SendCustomEvent", Str("ui.screenreader.announce")) = 0
                   /\ (WidgetRan(widgetOp.op) /\ widgetOp.forwarded = <<>>) =>
                          out = <<>> /\ written = <<>>

\* the helper was asked to announce while its settings had the screen reader
\* off and the subsystem was not connected
C40_Witness ==
    /\ WidgetRan("AnnounceToScreenReader")
    /\ Accepted
    /\ ~widgetOp.helperCalls[1].Settings.null
    /\ ~widgetOp.helperCalls[1].Settings.obj.bScreenReaderEnabled
    /\ ~IsConnected
    /\ out = <<>>

====
